---- MODULE Spec2Model ----
(***************************************************************************)
(* CHIP-8 interpreter (rengare/chip-8-rust-wasm).                          *)
(*                                                                         *)
(* Two parts are modelled:                                                 *)
(*   - the disassembler, chip_8_lib/src/disassembler.rs, a pure function   *)
(*     from a 16-bit opcode to a text;                                     *)
(*   - the wasm front end, chip_8_wasm/crate/src/lib.rs, which owns the    *)
(*     static CPU and exports init, load_game_js, key_down, key_up and     *)
(*     emulate_cycle.  The engine behind it (chip_8_lib::cpu::Cpu, the     *)
(*     methods initialize, load_game and emulate_cycle) is not among the   *)
(*     sources; it is modelled from the specification's section 4.1.       *)
(*                                                                         *)
(* A text is a sequence of one-character strings, so that prefixes and     *)
(* substrings of what format! produces can be examined.                    *)
(***************************************************************************)
EXTENDS Integers, Sequences, FiniteSets, TLC

VARIABLES
    CPU,        \* the static mut CPU of lib.rs: a record of the Cpu fields
    lastOp,     \* the export that last called a method of CPU
    result,     \* what that method returned (Ok or an error)
    returned,   \* what that export returned to the host
    rom,        \* the byte vector last handed to load_game_js
    cycles,     \* how many times emulate_cycle has been called
    loads,      \* how many times load_game_js has been called
    inited,     \* whether init has been called
    opcode,     \* disassembler: the opcode handed to disassemble
    text,       \* disassembler: the text disassemble returned
    disDone,    \* disassembler: whether disassemble has returned
    lastKeyDown,    \* history, kept in SpecKeys: for each key, whether the host's last
                    \* event for it was key_down
    console,    \* the messages emulate_cycle has passed to console::error_1
    uiFaults,   \* the indices beyond CPU.memory that update_ui has read
    displayBefore   \* CPU.display as it was before the last emulate_cycle

cpuVars == <<CPU>>
hostVars == <<lastOp, result, returned, rom, cycles, loads, inited>>
disVars == <<opcode, text, disDone>>
obsVars == <<lastKeyDown, console, uiFaults, displayBefore>>
vars == <<CPU, lastOp, result, returned, rom, cycles, loads, inited, opcode, text, disDone,
          lastKeyDown, console, uiFaults, displayBefore>>

----------------------------------------------------------------------------
(* Sizes and addresses fixed by the program.                               *)

MemSize == 4096
ProgStart == 512
NumRegs == 16
StackSize == 16
DisplaySize == 2048
NumKeys == 16
OpcodeMax == 65535

Bytes == 0..255
Opcodes == 0..OpcodeMax

----------------------------------------------------------------------------
(* Number formatting, as Rust's format! does it.                           *)

HexDigits == <<"0","1","2","3","4","5","6","7","8","9","A","B","C","D","E","F">>

\* {:X}: upper-case hexadecimal, no prefix, no leading zeros.
RECURSIVE UpperHex(_)
UpperHex(n) ==
    IF n < 16 THEN <<HexDigits[n + 1]>>
    ELSE UpperHex(n \div 16) \o <<HexDigits[(n % 16) + 1]>>

\* {}: decimal, no leading zeros.
RECURSIVE Display(_)
Display(n) ==
    IF n < 10 THEN <<HexDigits[n + 1]>>
    ELSE Display(n \div 10) \o <<HexDigits[(n % 10) + 1]>>

\* The characters a text of the disassembler is made of.
Chars ==
    {HexDigits[k] : k \in 1..16} \cup
    {"G","H","I","J","K","L","M","N","O","P","Q","R","S","T","U","V","W","X","Y","Z",
     "x"," ",",","[","]","{","}","?"}

\* What a call that panics leaves in place of a text.
Panicked == <<"!">>

----------------------------------------------------------------------------
(* disassembler.rs                                                         *)

\* The arm 0x0000..=0x0FFF: the low byte alone selects CLS and RET.
Dis0(op) ==
    LET subcode == op % 256   \* opcode & 0x00FF
    IN  CASE subcode = \hE0 -> <<"C","L","S">>
          [] subcode = \hEE -> <<"R","E","T">>
          [] OTHER -> <<>>

\* The arm 0x8000..=0x8FFF: the low nibble selects the operation.
Dis8(op) ==
    LET x == (op \div 256) % 16   \* (opcode & 0x0F00) >> 8
        y == (op \div 16) % 16    \* (opcode & 0x00F0) >> 4
        subcode == op % 16        \* opcode & 0x000F
        vx == <<"V">> \o Display(x)
        vy == <<"V">> \o Display(y)
    IN  CASE subcode = 0 -> <<"L","D"," ">> \o vx \o <<" ">> \o vy
          [] subcode = 1 -> <<"O","R"," ">> \o vx \o <<" ">> \o vy
          [] subcode = 2 -> <<"A","N","D"," ">> \o vx \o <<" ">> \o vy
          [] subcode = 3 -> <<"X","O","R"," ">> \o vx \o <<" ">> \o vy
          [] subcode = 4 -> <<"A","D","D"," ">> \o vx \o <<" ">> \o vy
          [] subcode = 5 -> <<"S","U","B"," ">> \o vx \o <<" ">> \o vy
          [] subcode = 6 -> <<"S","H","R"," ">> \o vx \o <<" ","{",","," ">> \o vy \o <<"}">>
          [] subcode = 7 -> <<"S","U","B","N"," ">> \o vx \o <<" ">> \o vy \o <<" ">>
          [] subcode = \hE -> <<"H","L"," ">> \o vx \o <<" ">> \o vy \o <<" ">>
          [] OTHER -> <<"?","?","?"," ">> \o UpperHex(op)

\* DisE with a catch-all arm that panics instead of formatting a placeholder.
DisEPanics(op) ==
    LET x == (op \div 256) % 16
        code == op % 256
    IN  CASE code = \h9E -> <<"S","K","P"," ","V">> \o Display(x) \o <<" ">>
          [] code = \hA1 -> <<"S","K","N","P"," ","V">> \o Display(x)
          [] OTHER -> Panicked

\* The arm 0xE000..=0xEFFF: the low byte selects the operation.
DisE(op) ==
    LET x == (op \div 256) % 16
        code == op % 256
    IN  CASE code = \h9E -> <<"S","K","P"," ","V">> \o Display(x) \o <<" ">>
          [] code = \hA1 -> <<"S","K","N","P"," ","V">> \o Display(x)
          [] OTHER -> <<"?","?","?"," ">> \o UpperHex(op)

\* The arm 0xF000..=0xFFFF: the low byte selects the operation.
DisF(op) ==
    LET x == (op \div 256) % 16
        code == op % 256
        vx == <<"V">> \o Display(x)
    IN  CASE code = \h07 -> <<"L","D"," ">> \o vx \o <<","," ","D","T">>
          [] code = \h0A -> <<"L","D"," ">> \o vx \o <<" ","K">>
          [] code = \h15 -> <<"L","D"," ","D","T"," ">> \o vx
          [] code = \h18 -> <<"L","D"," ","S","T"," ">> \o vx
          [] code = \h1E -> <<"A","D","D"," ","I"," ">> \o vx
          [] code = \h29 -> <<"L","D"," ","F"," ">> \o vx
          [] code = \h33 -> <<"L","D"," ","B"," ">> \o vx
          [] code = \h55 -> <<"L","D"," ","[","I","]"," ">> \o vx
          [] code = \h65 -> <<"L","D"," ">> \o vx \o <<","," ","[","I","]">>
          [] OTHER -> <<"?","?","?"," ">> \o UpperHex(op)

\* disassemble(opcode: u16) -> String: the outer match, one arm per high nibble.
disassemble(op) ==
    LET x == (op \div 256) % 16
        y == (op \div 16) % 16
        kk == op % 256            \* opcode & 0x00FF
        address == op % 4096      \* opcode & 0x0FFF
        nibble == op % 16
        vx == <<"V">> \o Display(x)
        vy == <<"V">> \o Display(y)
    IN  CASE op \in \h0000..\h0FFF -> Dis0(op)
          [] op \in \h1000..\h1FFF -> <<"J","P"," ","0","x">> \o UpperHex(address)
          [] op \in \h2000..\h2FFF -> <<"C","A","L","L"," ","0","x">> \o UpperHex(address)
          [] op \in \h3000..\h3FFF -> <<"S","E"," ">> \o vx \o <<" ">> \o Display(kk)
          [] op \in \h4000..\h4FFF -> <<"S","N","E"," ">> \o vx \o <<" ">> \o Display(kk)
          [] op \in \h5000..\h5FFF -> <<"S","E"," ">> \o vx \o <<" ">> \o vy
          [] op \in \h6000..\h6FFF -> <<"L","D"," ">> \o vx \o <<" ">> \o Display(kk)
          [] op \in \h7000..\h7FFF -> <<"A","D","D"," ">> \o vx \o <<" ">> \o Display(kk)
          [] op \in \h8000..\h8FFF -> Dis8(op)
          [] op \in \h9000..\h9FFF -> <<"S","N","E"," ">> \o vx \o <<" ">> \o vy \o <<" ">>
          [] op \in \hA000..\hAFFF -> <<"L","D"," ","I"," ">> \o Display(address) \o <<" ">>
          [] op \in \hB000..\hBFFF -> <<"J","P"," ","V","0",","," ">> \o Display(address) \o <<" ">>
          [] op \in \hC000..\hCFFF -> <<"R","N","D"," ">> \o vx \o <<","," ">> \o Display(kk) \o <<" ">>
          [] op \in \hD000..\hDFFF ->
                <<"D","R","W"," ">> \o vx \o <<" ">> \o vy \o <<" ">> \o Display(nibble) \o <<" ">>
          [] op \in \hE000..\hEFFF -> DisE(op)
          [] op \in \hF000..\hFFFF -> DisF(op)

----------------------------------------------------------------------------
(* The static CPU of lib.rs.  memory and display are kept as their         *)
(* non-zero cells only: memory maps each address holding a non-zero byte   *)
(* to that byte, display is the set of the lit cells; every other cell of  *)
(* the [u8; 4096] and [u8; 2048] arrays is 0.                              *)

EmptyMemory == [a \in {} |-> 0]

\* The byte vector of no bytes.
EmptyRom == [len |-> 0, nz |-> EmptyMemory]

OkResult == [kind |-> "Ok", code |-> 0]

\* Nothing observed yet: no key event, an empty console, no read of update_ui.
InitObs ==
    /\ lastKeyDown = [k \in 0..(NumKeys - 1) |-> FALSE]
    /\ console = <<>>
    /\ uiFaults = {}
    /\ displayBefore = {}

StaticCpu ==
    [memory |-> EmptyMemory,
     pc |-> ProgStart,
     v |-> [r \in 0..(NumRegs - 1) |-> 0],
     i |-> 0,
     stack |-> [s \in 0..(StackSize - 1) |-> 0],
     sp |-> 0,
     display |-> {},
     dt |-> 0,
     keys |-> [k \in 0..(NumKeys - 1) |-> FALSE]]

----------------------------------------------------------------------------
(* The disassembler on its own: one call on any opcode.                    *)

InitDis ==
    /\ CPU = StaticCpu
    /\ lastOp = "start"
    /\ result = OkResult
    /\ returned = "void"
    /\ rom = EmptyRom
    /\ cycles = 0
    /\ loads = 0
    /\ inited = FALSE
    /\ opcode \in Opcodes
    /\ text = <<>>
    /\ disDone = FALSE
    /\ InitObs

disassembleCall ==
    /\ ~disDone
    /\ text' = disassemble(opcode)
    /\ disDone' = TRUE
    /\ UNCHANGED <<cpuVars, hostVars, opcode, obsVars>>

NextDis == disassembleCall

SpecDis == InitDis /\ [][NextDis]_vars

----------------------------------------------------------------------------
(* The engine, chip_8_lib::cpu::Cpu.  Its source is not available; the     *)
(* operators of this section follow section 4.1 of the specification.      *)

Word(n) == n % 65536          \* u16 arithmetic wraps
Byte(n) == n % 256            \* u8 arithmetic wraps

\* memory[a], for a in 0..MemSize-1.
Mem(c, a) == IF a \in DOMAIN c.memory THEN c.memory[a] ELSE 0

\* memory with the bytes of the sequence bs stored from address base on.
MemWrite(m, base, bs) ==
    LET addrs == {base + k - 1 : k \in 1..Len(bs)}
        val(a) == IF a \in addrs THEN bs[a - base + 1] ELSE m[a]
        kept == {a \in (DOMAIN m) \cup addrs : val(a) # 0}
    IN  [a \in kept |-> val(a)]

\* The built-in glyphs of the hexadecimal digits 0..F, five bytes each.
FontSet ==
    <<\hF0,\h90,\h90,\h90,\hF0,  \h20,\h60,\h20,\h20,\h70,
      \hF0,\h10,\hF0,\h80,\hF0,  \hF0,\h10,\hF0,\h10,\hF0,
      \h90,\h90,\hF0,\h10,\h10,  \hF0,\h80,\hF0,\h10,\hF0,
      \hF0,\h80,\hF0,\h90,\hF0,  \hF0,\h10,\h20,\h40,\h40,
      \hF0,\h90,\hF0,\h90,\hF0,  \hF0,\h90,\hF0,\h10,\hF0,
      \hF0,\h90,\hF0,\h90,\h90,  \hE0,\h90,\hE0,\h90,\hE0,
      \hF0,\h80,\h80,\h80,\hF0,  \hE0,\h90,\h90,\h90,\hE0,
      \hF0,\h80,\hF0,\h80,\hF0,  \hF0,\h80,\hF0,\h80,\h80>>

\* Bitwise operations on the low n bits.
RECURSIVE BitAnd(_, _, _)
BitAnd(a, b, n) ==
    IF n = 0 THEN 0
    ELSE (IF a % 2 = 1 /\ b % 2 = 1 THEN 1 ELSE 0) + 2 * BitAnd(a \div 2, b \div 2, n - 1)

RECURSIVE BitOr(_, _, _)
BitOr(a, b, n) ==
    IF n = 0 THEN 0
    ELSE (IF a % 2 = 1 \/ b % 2 = 1 THEN 1 ELSE 0) + 2 * BitOr(a \div 2, b \div 2, n - 1)

RECURSIVE BitXor(_, _, _)
BitXor(a, b, n) ==
    IF n = 0 THEN 0
    ELSE (IF a % 2 # b % 2 THEN 1 ELSE 0) + 2 * BitXor(a \div 2, b \div 2, n - 1)

Ok(c) == [cpu |-> c, res |-> OkResult]
Fail(c, kind, code) == [cpu |-> c, res |-> [kind |-> kind, code |-> code]]

\* initialize(): font in low memory, everything else zeroed, pc = 0x200.
Cpu_initialize ==
    [memory |-> MemWrite(EmptyMemory, 0, FontSet),
     pc |-> ProgStart,
     v |-> [r \in 0..(NumRegs - 1) |-> 0],
     i |-> 0,
     stack |-> [s \in 0..(StackSize - 1) |-> 0],
     sp |-> 0,
     display |-> {},
     dt |-> 0,
     keys |-> [k \in 0..(NumKeys - 1) |-> FALSE]]

\* A byte vector is kept, like memory, as its length and its non-zero bytes:
\* nz maps each index (from 0) holding a non-zero byte to that byte.
At(data, idx) == IF idx \in DOMAIN data.nz THEN data.nz[idx] ELSE 0

\* memory with the byte vector data copied to base..base+len-1.
MemCopy(m, base, data) ==
    LET range == base..(base + data.len - 1)
        kept == ((DOMAIN m) \ range) \cup {base + idx : idx \in DOMAIN data.nz}
    IN  [a \in kept |-> IF a \in range THEN data.nz[a - base] ELSE m[a]]

\* load_program(bytes): all of bytes to memory[0x200..], or ProgramTooLarge and nothing.
Cpu_load_game(c, data) ==
    IF data.len > MemSize - ProgStart
    THEN Fail(c, "ProgramTooLarge", 0)
    ELSE Ok([c EXCEPT !.memory = MemCopy(c.memory, ProgStart, data)])

\* Fetch: the two bytes at pc, high byte first.
Fetch(c) == Mem(c, c.pc) * 256 + Mem(c, c.pc + 1)

\* An advance by one byte instead of one instruction.
AdvanceOneByte(c) == [c EXCEPT !.pc = Word(c.pc + 1)]

\* The normal advance: pc past the two bytes of the instruction.
Advance(c) == [c EXCEPT !.pc = Word(c.pc + 2)]
SkipIf(c, cond) == [c EXCEPT !.pc = Word(c.pc + (IF cond THEN 4 ELSE 2))]

\* VF = flag, then Vx = val: the flag is written first.
SetFlagThenValue(c, x, val, flag) ==
    [c EXCEPT !.v = [[c.v EXCEPT ![15] = flag] EXCEPT ![x] = val]]

\* Vx = val, then VF = flag: the flag is written last.
SetWithFlag(c, x, val, flag) ==
    [c EXCEPT !.v = [[c.v EXCEPT ![x] = val] EXCEPT ![15] = flag]]

\* RET: StackUnderflow on an empty stack, else pop into pc.
Ret(c) ==
    IF c.sp = 0
    THEN Fail(c, "StackUnderflow", 0)
    ELSE Ok([c EXCEPT !.sp = c.sp - 1, !.pc = c.stack[c.sp - 1]])

\* CALL that pushes the address of the CALL itself.
CallPushesPc(c, nnn) ==
    IF c.sp >= StackSize
    THEN Fail(c, "StackOverflow", 0)
    ELSE Ok([c EXCEPT !.stack[c.sp] = c.pc, !.sp = c.sp + 1, !.pc = nnn])

\* CALL nnn: StackOverflow with 16 entries, else push pc+2 and jump.
Call(c, nnn) ==
    IF c.sp >= StackSize
    THEN Fail(c, "StackOverflow", 0)
    ELSE Ok([c EXCEPT !.stack[c.sp] = Word(c.pc + 2), !.sp = c.sp + 1, !.pc = nnn])

\* An 8xy? family whose SUB and SUBN set VF only when the difference is positive.
AluStrictBorrow(c, op, x, y) ==
    LET vx == c.v[x]
        vy == c.v[y]
        n == op % 16
    IN  CASE n = 0 -> Ok(Advance([c EXCEPT !.v[x] = vy]))
          [] n = 1 -> Ok(Advance([c EXCEPT !.v[x] = BitOr(vx, vy, 8)]))
          [] n = 2 -> Ok(Advance([c EXCEPT !.v[x] = BitAnd(vx, vy, 8)]))
          [] n = 3 -> Ok(Advance([c EXCEPT !.v[x] = BitXor(vx, vy, 8)]))
          [] n = 4 -> Ok(Advance(SetWithFlag(c, x, Byte(vx + vy),
                                             IF vx + vy > 255 THEN 1 ELSE 0)))
          [] n = 5 -> Ok(Advance(SetWithFlag(c, x, Byte(vx - vy + 256),
                                             IF vx > vy THEN 1 ELSE 0)))
          [] n = 6 -> Ok(Advance(SetWithFlag(c, x, vx \div 2, vx % 2)))
          [] n = 7 -> Ok(Advance(SetWithFlag(c, x, Byte(vy - vx + 256),
                                             IF vy > vx THEN 1 ELSE 0)))
          [] n = 14 -> Ok(Advance(SetWithFlag(c, x, Byte(vx * 2), vx \div 128)))
          [] OTHER -> Fail(c, "UnknownOpcode", op)

\* The 8xy? family.
Alu(c, op, x, y) ==
    LET vx == c.v[x]
        vy == c.v[y]
        n == op % 16
    IN  CASE n = 0 -> Ok(Advance([c EXCEPT !.v[x] = vy]))
          [] n = 1 -> Ok(Advance([c EXCEPT !.v[x] = BitOr(vx, vy, 8)]))
          [] n = 2 -> Ok(Advance([c EXCEPT !.v[x] = BitAnd(vx, vy, 8)]))
          [] n = 3 -> Ok(Advance([c EXCEPT !.v[x] = BitXor(vx, vy, 8)]))
          [] n = 4 -> Ok(Advance(SetWithFlag(c, x, Byte(vx + vy),
                                             IF vx + vy > 255 THEN 1 ELSE 0)))
          [] n = 5 -> Ok(Advance(SetWithFlag(c, x, Byte(vx - vy + 256),
                                             IF vx >= vy THEN 1 ELSE 0)))
          [] n = 6 -> Ok(Advance(SetWithFlag(c, x, vx \div 2, vx % 2)))
          [] n = 7 -> Ok(Advance(SetWithFlag(c, x, Byte(vy - vx + 256),
                                             IF vy >= vx THEN 1 ELSE 0)))
          [] n = 14 -> Ok(Advance(SetWithFlag(c, x, Byte(vx * 2), vx \div 128)))
          [] OTHER -> Fail(c, "UnknownOpcode", op)

\* The display cells an n-row sprite at memory[I..] covers when drawn at (Vx, Vy).
SpriteCells(c, x, y, n) ==
    LET left == c.v[x] % 64
        top == c.v[y] % 32
    IN  {((top + row) % 32) * 64 + ((left + col) % 64) :
            <<row, col>> \in {rc \in (0..(n - 1)) \X (0..7) :
                (Mem(c, c.i + rc[1]) \div (2 ^ (7 - rc[2]))) % 2 = 1}}

\* A DRW that sets the pixels of the sprite instead of flipping them.
DrwSetsPixels(c, x, y, n) ==
    LET cells == SpriteCells(c, x, y, n)
        hit == IF cells \cap c.display # {} THEN 1 ELSE 0
    IN  Ok(Advance([c EXCEPT !.display = c.display \cup cells,
                             !.v[15] = hit]))

\* DRW Vx,Vy,n: XOR the sprite onto the display, VF = collision.
Drw(c, x, y, n) ==
    LET cells == SpriteCells(c, x, y, n)
        hit == IF cells \cap c.display # {} THEN 1 ELSE 0
    IN  Ok(Advance([c EXCEPT !.display = (c.display \ cells) \cup (cells \ c.display),
                             !.v[15] = hit]))

PressedKeys(c) == {k \in 0..(NumKeys - 1) : c.keys[k]}

\* LD Vx,K that waits for key 0 only.
LdVxKOnlyKeyZero(c, x, key) ==
    IF ~c.keys[0] THEN Ok(c)
    ELSE Ok(Advance([c EXCEPT !.v[x] = key]))

\* LD Vx,K: no key pressed, nothing changes; else Vx = the pressed key, advance.
LdVxK(c, x, key) ==
    IF PressedKeys(c) = {} THEN Ok(c)
    ELSE Ok(Advance([c EXCEPT !.v[x] = key]))

\* An Ex?? family whose unknown opcodes still advance pc.
KeyOpUnknownAdvances(c, op, x) ==
    LET code == op % 256
    IN  CASE code = \h9E -> Ok(SkipIf(c, c.keys[c.v[x]]))
          [] code = \hA1 -> Ok(SkipIf(c, ~c.keys[c.v[x]]))
          [] OTHER -> Fail(Advance(c), "UnknownOpcode", op)

\* The Ex?? family.
KeyOp(c, op, x) ==
    LET code == op % 256
    IN  CASE code = \h9E -> Ok(SkipIf(c, c.keys[c.v[x]]))
          [] code = \hA1 -> Ok(SkipIf(c, ~c.keys[c.v[x]]))
          [] OTHER -> Fail(c, "UnknownOpcode", op)

\* An LD B,Vx that stores the tens as vx / 10.
BcdTensNotReduced(vx) == <<vx \div 100, vx \div 10, vx % 10>>

\* LD B,Vx: hundreds, tens and ones of vx.
Bcd(vx) == <<vx \div 100, (vx \div 10) % 10, vx % 10>>

\* The Fx?? family.
Misc(c, op, x, key) ==
    LET code == op % 256
        vx == c.v[x]
    IN  CASE code = \h07 -> Ok(Advance([c EXCEPT !.v[x] = c.dt]))
          [] code = \h0A -> LdVxK(c, x, key)
          [] code = \h15 -> Ok(Advance([c EXCEPT !.dt = vx]))
          [] code = \h18 -> Ok(Advance(c))
          [] code = \h1E -> Ok(Advance([c EXCEPT !.i = Word(c.i + vx)]))
          [] code = \h29 -> Ok(Advance([c EXCEPT !.i = 5 * vx]))
          [] code = \h33 ->
                Ok(Advance([c EXCEPT !.memory =
                    MemWrite(c.memory, c.i, Bcd(vx))]))
          [] code = \h55 ->
                Ok(Advance([c EXCEPT !.memory =
                    MemWrite(c.memory, c.i, [k \in 1..(x + 1) |-> c.v[k - 1]])]))
          [] code = \h65 ->
                Ok(Advance([c EXCEPT !.v =
                    [r \in 0..(NumRegs - 1) |-> IF r <= x THEN Mem(c, c.i + r) ELSE c.v[r]]]))
          [] OTHER -> Fail(c, "UnknownOpcode", op)

\* Execute: the effect of opcode op; rnd is the random byte, key the key LD Vx,K reads.
Execute(c, op, rnd, key) ==
    LET hi == op \div 4096
        nnn == op % 4096
        x == (op \div 256) % 16
        y == (op \div 16) % 16
        kk == op % 256
    IN  CASE op = \h00E0 -> Ok(Advance([c EXCEPT !.display = {}]))
          [] op = \h00EE -> Ret(c)
          [] hi = 0 /\ op \notin {\h00E0, \h00EE} -> Ok(Advance(c))
          [] hi = 1 -> Ok([c EXCEPT !.pc = nnn])
          [] hi = 2 -> Call(c, nnn)
          [] hi = 3 -> Ok(SkipIf(c, c.v[x] = kk))
          [] hi = 4 -> Ok(SkipIf(c, c.v[x] # kk))
          [] hi = 5 -> Ok(SkipIf(c, c.v[x] = c.v[y]))
          [] hi = 6 -> Ok(Advance([c EXCEPT !.v[x] = kk]))
          [] hi = 7 -> Ok(Advance([c EXCEPT !.v[x] = Byte(c.v[x] + kk)]))
          [] hi = 8 -> Alu(c, op, x, y)
          [] hi = 9 -> Ok(SkipIf(c, c.v[x] # c.v[y]))
          [] hi = 10 -> Ok(Advance([c EXCEPT !.i = nnn]))
          [] hi = 11 -> Ok([c EXCEPT !.pc = Word(nnn + c.v[0])])
          [] hi = 12 -> Ok(Advance([c EXCEPT !.v[x] = BitAnd(rnd, kk, 8)]))
          [] hi = 13 -> Drw(c, x, y, op % 16)
          [] hi = 14 -> KeyOp(c, op, x)
          [] hi = 15 -> Misc(c, op, x, key)

\* The instruction table: the mnemonic of the family that Execute dispatches op to,
\* SysFamily for the ignored 0nnn and NoFamily where it finds no instruction.
SysFamily == <<"S","Y","S">>
NoFamily == <<"?","?","?">>

Family(op) ==
    LET hi == op \div 4096
        n == op % 16
        kk == op % 256
    IN  CASE op = \h00E0 -> <<"C","L","S">>
          [] op = \h00EE -> <<"R","E","T">>
          [] hi = 0 /\ op \notin {\h00E0, \h00EE} -> SysFamily
          [] hi \in {1, 11} -> <<"J","P">>
          [] hi = 2 -> <<"C","A","L","L">>
          [] hi \in {3, 5} -> <<"S","E">>
          [] hi \in {4, 9} -> <<"S","N","E">>
          [] hi \in {6, 10} -> <<"L","D">>
          [] hi = 7 -> <<"A","D","D">>
          [] hi = 8 /\ n = 0 -> <<"L","D">>
          [] hi = 8 /\ n = 1 -> <<"O","R">>
          [] hi = 8 /\ n = 2 -> <<"A","N","D">>
          [] hi = 8 /\ n = 3 -> <<"X","O","R">>
          [] hi = 8 /\ n = 4 -> <<"A","D","D">>
          [] hi = 8 /\ n = 5 -> <<"S","U","B">>
          [] hi = 8 /\ n = 6 -> <<"S","H","R">>
          [] hi = 8 /\ n = 7 -> <<"S","U","B","N">>
          [] hi = 8 /\ n = 14 -> <<"S","H","L">>
          [] hi = 12 -> <<"R","N","D">>
          [] hi = 13 -> <<"D","R","W">>
          [] hi = 14 /\ kk = \h9E -> <<"S","K","P">>
          [] hi = 14 /\ kk = \hA1 -> <<"S","K","N","P">>
          [] hi = 15 /\ kk = \h1E -> <<"A","D","D">>
          [] hi = 15 /\ kk \in {\h07, \h0A, \h15, \h18, \h29, \h33, \h55, \h65} -> <<"L","D">>
          [] OTHER -> NoFamily

\* A step that indexes memory or keys out of range does not complete: the fetch
\* beyond the last address, a sprite or register block beyond it, a key above F.
Traps(c) ==
    \/ c.pc + 1 >= MemSize
    \/ LET op == Fetch(c)
           hi == op \div 4096
           x == (op \div 256) % 16
           code == op % 256
       IN  \/ hi = 13 /\ op % 16 > 0 /\ c.i + (op % 16) - 1 >= MemSize
           \/ hi = 14 /\ code \in {\h9E, \hA1} /\ c.v[x] >= NumKeys
           \/ hi = 15 /\ code = \h33 /\ c.i + 2 >= MemSize
           \/ hi = 15 /\ code \in {\h55, \h65} /\ c.i + x >= MemSize

\* step(): fetch, decode, execute one instruction.
Cpu_emulate_cycle(c, rnd, key) == Execute(c, Fetch(c), rnd, key)

----------------------------------------------------------------------------
(* Inputs of the host.                                                     *)

MaxCycles == 17      \* emulate_cycle calls in one behaviour
MaxLoads == 1        \* load_game_js calls in one behaviour

UiWindow == 50       \* update_ui lists the instructions of pc .. pc + 50

\* The keys the host presses and releases.
KeyInputs == {1, 15}

\* The bytes the random source yields.
RndBytes == {\h00, \hA5, \hFF}

\* The short programs the host loads.
RomPrograms ==
    {<<\h2200>>,            \* CALL 0x200: calls itself
     <<\h00EE>>,            \* RET
     <<\h2202, \h00EE>>,    \* CALL 0x202; RET
     <<\h1201>>,            \* JP 0x201, an odd address
     <<\h60FF, \hBFFF>>,    \* LD V0,0xFF; JP V0,0xFFF
     <<\hBFFF>>,            \* JP V0,0xFFF
     <<\hF50A, \h2200>>,    \* LD V5,K; CALL 0x200
     <<\h8008>>}            \* no instruction

\* The bytes of a sequence of instructions, high byte first.
RomBytes(instrs) ==
    LET byte(idx) == IF idx % 2 = 0 THEN instrs[(idx \div 2) + 1] \div 256
                     ELSE instrs[(idx \div 2) + 1] % 256
    IN  [len |-> 2 * Len(instrs),
         nz |-> [idx \in {j \in 0..(2 * Len(instrs) - 1) : byte(j) # 0} |-> byte(idx)]]

ShortRoms == {RomBytes(is) : is \in RomPrograms}

\* A ROM of len bytes: JP 0xFFE first, zeros, and tail as the instruction that
\* lands on 0xFFE when len is at least MemSize - ProgStart; bytes beyond are 0xFF.
LongRom(len, tail) ==
    LET full == MemSize - ProgStart
        byte(idx) == CASE idx = 0 -> \h1F
                       [] idx = 1 -> \hFE
                       [] idx = full - 2 -> tail \div 256
                       [] idx = full - 1 -> tail % 256
                       [] idx >= full -> \hFF
                       [] OTHER -> 0
    IN  [len |-> len,
         nz |-> [idx \in {j \in 0..(len - 1) : byte(j) # 0} |-> byte(idx)]]

LongRoms ==
    {LongRom(MemSize - ProgStart, \h6001),
     LongRom(MemSize - ProgStart, \h2202),
     LongRom(MemSize - ProgStart + 1, \h6001)}

\* CALL 0x300 at 0x200 and RET at 0x300, zeros between.
CallRetRom == [len |-> 258, nz |-> (0 :> \h23) @@ (257 :> \hEE)]

Roms == {EmptyRom, CallRetRom} \cup ShortRoms \cup LongRoms

----------------------------------------------------------------------------
(* lib.rs: the exports of the wasm module, each acting on the static CPU.  *)

Init ==
    /\ CPU = StaticCpu
    /\ lastOp = "start"
    /\ result = OkResult
    /\ returned = "void"
    /\ rom = EmptyRom
    /\ cycles = 0
    /\ loads = 0
    /\ inited = FALSE
    /\ opcode = 0
    /\ text = <<>>
    /\ disDone = FALSE
    /\ InitObs

\* An init that does not reach CPU.initialize().
initSkipsInitialize ==
    /\ lastOp' = "init"
    /\ returned' = "void"
    /\ inited' = TRUE
    /\ UNCHANGED <<CPU, result, rom, cycles, loads, disVars, obsVars>>

\* init(): CPU.initialize().
init ==
    /\ CPU' = Cpu_initialize
    /\ lastOp' = "init"
    /\ result' = OkResult
    /\ returned' = "void"
    /\ inited' = TRUE
    /\ UNCHANGED <<rom, cycles, loads, disVars, obsVars>>

\* A key_down that stores false.
KeyDownStoresFalse(key) ==
    /\ CPU' = [CPU EXCEPT !.keys[key] = FALSE]
    /\ UNCHANGED <<hostVars, disVars, console, uiFaults, displayBefore>>

\* key_down(key): CPU.keys[key as usize] = true.
KeyDown(key) ==
    /\ CPU' = [CPU EXCEPT !.keys[key] = TRUE]
    /\ UNCHANGED <<hostVars, disVars, console, uiFaults, displayBefore>>

\* key_up(key): CPU.keys[key as usize] = false.
KeyUp(key) ==
    /\ CPU' = [CPU EXCEPT !.keys[key] = FALSE]
    /\ UNCHANGED <<hostVars, disVars, console, uiFaults, displayBefore>>

key_down == \E key \in KeyInputs : KeyDown(key) /\ UNCHANGED lastKeyDown

key_up == \E key \in KeyInputs : KeyUp(key) /\ UNCHANGED lastKeyDown

\* The same calls with the history of the key events recorded in lastKeyDown.
key_downRecorded ==
    \E key \in KeyInputs :
        KeyDown(key) /\ lastKeyDown' = [lastKeyDown EXCEPT ![key] = TRUE]

key_upRecorded ==
    \E key \in KeyInputs :
        KeyUp(key) /\ lastKeyDown' = [lastKeyDown EXCEPT ![key] = FALSE]

\* The match of emulate_cycle with its arms swapped.
cycleReturnSwapped(res) == IF res.kind = "Ok" THEN "false" ELSE "true"

\* The match of emulate_cycle: Ok(_) => true, Err(e) => false (after console::error_1).
cycleReturn(res) == IF res.kind = "Ok" THEN "true" ELSE "false"

\* An Err arm that reports nothing.
cycleConsoleSilent(log, res) == log

\* The Err arm of that match: console::error_1 with the message of the error.
cycleConsole(log, res) == IF res.kind = "Ok" THEN log ELSE Append(log, res.kind)

\* emulate_cycle() -> bool: one CPU.emulate_cycle().
emulate_cycle ==
    /\ cycles < MaxCycles
    /\ ~Traps(CPU)
    /\ \E rnd \in (IF Fetch(CPU) \div 4096 = 12 THEN RndBytes ELSE {0}),
          key \in (IF PressedKeys(CPU) = {} THEN {0} ELSE PressedKeys(CPU)) :
        LET r == Cpu_emulate_cycle(CPU, rnd, key)
        IN  /\ CPU' = r.cpu
            /\ result' = r.res
            /\ returned' = cycleReturn(r.res)
            /\ console' = cycleConsole(console, r.res)
    /\ lastOp' = "emulate_cycle"
    /\ cycles' = cycles + 1
    /\ displayBefore' = CPU.display
    /\ UNCHANGED <<rom, loads, inited, disVars, lastKeyDown, uiFaults>>

\* load_game_js(data): the bytes of the DataView, in order, to CPU.load_game; what
\* load_game returns is dropped and the export returns nothing.
load_game_js ==
    /\ loads < MaxLoads
    /\ \E data \in Roms :
        LET data_vec == [len |-> data.len,
                         nz |-> [idx \in DOMAIN data.nz |-> data.nz[idx]]]
            r == Cpu_load_game(CPU, data_vec)
        IN  /\ CPU' = r.cpu
            /\ result' = r.res
            /\ rom' = data
    /\ lastOp' = "load_game_js"
    /\ returned' = "void"
    /\ loads' = loads + 1
    /\ UNCHANGED <<cycles, inited, disVars, obsVars>>

\* update_ui(): the list of the instructions from pc on, at most UiWindow bytes of
\* them: for x in (pc..memory_end).step_by(2) it reads memory[x] and memory[x + 1].
\* (The registers, I, pc and dt it also shows are read without an index.)
update_ui ==
    LET memory_start == CPU.pc
        sum == Word(CPU.pc + UiWindow)
        memory_end == IF sum >= MemSize THEN MemSize ELSE sum
        xs == {x \in memory_start..(memory_end - 1) : (x - memory_start) % 2 = 0}
        reads == xs \cup {x + 1 : x \in xs}
    IN  /\ uiFaults' = uiFaults \cup {a \in reads : a >= MemSize}
        /\ UNCHANGED <<cpuVars, hostVars, disVars, lastKeyDown, console, displayBefore>>

Next ==
    \/ init
    \/ load_game_js
    \/ key_down
    \/ key_up
    \/ emulate_cycle
    \/ update_ui

Spec == Init /\ [][Next]_vars

----------------------------------------------------------------------------
(* A machine that has been initialized and has a program loaded: the state *)
(* after init() and load_game_js of the bytes of instrs.                   *)

Loaded(instrs) == Cpu_load_game(Cpu_initialize, RomBytes(instrs)).cpu

InitLoaded(instrs) ==
    /\ CPU = Loaded(instrs)
    /\ lastOp = "load_game_js"
    /\ result = OkResult
    /\ returned = "void"
    /\ rom = RomBytes(instrs)
    /\ cycles = 0
    /\ loads = 1
    /\ inited = TRUE
    /\ text = <<>>
    /\ disDone = FALSE
    /\ InitObs

\* The host steps the loaded program once for each of its instructions.
runProgram ==
    /\ cycles < rom.len \div 2
    /\ emulate_cycle

----------------------------------------------------------------------------
(* Decoding: any one opcode is loaded as a program of one instruction; it  *)
(* is stepped once and, as update_ui does with what it reads from memory,  *)
(* handed to disassemble.                                                  *)

InitDecode ==
    /\ opcode \in Opcodes
    /\ InitLoaded(<<opcode>>)

NextDecode ==
    \/ disassembleCall
    \/ runProgram

SpecDecode == InitDecode /\ [][NextDecode]_vars

----------------------------------------------------------------------------
(* The keypad: a program that polls the keys is loaded, and the host sends *)
(* key events, steps the machine and resets it, in any order.              *)

\* LD V1,key; SKP V1; SKNP V1; LD V5,K; JP 0x202.
KeyProgram(key) == <<\h6100 + key, \hE19E, \hE1A1, \hF50A, \h1202>>

KeyPrograms == {KeyProgram(key) : key \in KeyInputs}

InitKeys ==
    /\ opcode = 0
    /\ \E instrs \in KeyPrograms : InitLoaded(instrs)

NextKeys ==
    \/ init
    \/ key_downRecorded
    \/ key_upRecorded
    \/ emulate_cycle

SpecKeys == InitKeys /\ [][NextKeys]_vars

----------------------------------------------------------------------------
(* Straight-line programs: registers are loaded with chosen values, then   *)
(* the instruction under study runs; the host steps the program once for   *)
(* each of its instructions.                                               *)

\* Register values at and around the limits of 8-bit arithmetic.
ByteSamples == {0, 1, 2, 3, 5, 15, 16, 100, 127, 128, 129, 200, 254, 255}

\* Register pairs <<x, y>>: distinct, equal, and VF as either operand or both.
RegPairs == {<<1, 2>>, <<3, 3>>, <<2, 15>>, <<15, 2>>, <<15, 15>>}

\* ADD, SUB, SHR, SUBN, SHL: the low nibbles of the 8xy? instructions that set VF.
FlagOps == {4, 5, 6, 7, 14}

LdVxByte(x, kk) == \h6000 + 256 * x + kk
AddVxByte(x, kk) == \h7000 + 256 * x + kk
AluVxVy(x, y, n) == \h8000 + 256 * x + 16 * y + n
LdI(nnn) == \hA000 + nnn
DrwVxVy(x, y, n) == \hD000 + 256 * x + 16 * y + n
LdBVx(x) == \hF033 + 256 * x
LdMemVx(x) == \hF055 + 256 * x
LdVxMem(x) == \hF065 + 256 * x

\* LD Vx,a; LD Vy,b; then the 8xy? instruction.
AluPrograms ==
    {<<LdVxByte(xy[1], a), LdVxByte(xy[2], b), AluVxVy(xy[1], xy[2], n)>> :
        xy \in RegPairs, a \in ByteSamples, b \in ByteSamples, n \in FlagOps}

\* LD VF,1; LD Vx,a; ADD Vx,kk.
AddBytePrograms ==
    {<<LdVxByte(15, 1), LdVxByte(x, a), AddVxByte(x, kk)>> :
        x \in {1, 15}, a \in ByteSamples, kk \in ByteSamples}

\* Where the programs keep their data: above the program, zero after a load.
DataAddr == 768

\* Sprites: <<I, n>>. The glyph of 0, its first row, no rows, and two blank rows.
Sprites == {<<0, 5>>, <<0, 1>>, <<0, 0>>, <<DataAddr, 2>>}

\* Coordinates <<Vx, Vy>>: the corner, both edges, and beyond the display.
DrawPlaces == {<<0, 0>>, <<62, 30>>, <<70, 40>>}

\* Backgrounds: none, or the glyph of 1 drawn first at the corner.
Background == <<LdI(5), LdVxByte(4, 0), LdVxByte(5, 0), DrwVxVy(4, 5, 5)>>
Backgrounds == {<<>>, Background}

\* The background, then LD I; LD Vx,a; LD Vy,b; and the same DRW twice.
DrawPrograms ==
    {bg \o <<LdI(sp[1]), LdVxByte(xy[1], at[1]), LdVxByte(xy[2], at[2]),
             DrwVxVy(xy[1], xy[2], sp[2]), DrwVxVy(xy[1], xy[2], sp[2])>> :
        bg \in Backgrounds, sp \in Sprites, at \in DrawPlaces,
        xy \in {<<1, 2>>, <<15, 2>>, <<2, 15>>}}

\* LD V0,0x11; LD Vx,val; LD I; LD B,Vx; LD [I],Vx; the registers are
\* overwritten when clobber; LD Vx,[I].
BcdProgram(x, val, clobber) ==
    <<LdVxByte(0, \h11), LdVxByte(x, val), LdI(DataAddr), LdBVx(x), LdMemVx(x)>>
    \o (IF clobber THEN <<LdVxByte(0, \hEE), LdVxByte(x, \hDD)>> ELSE <<>>)
    \o <<LdVxMem(x)>>

BcdPrograms ==
    {BcdProgram(x, val, clobber) : x \in {0, 2, 15}, val \in Bytes, clobber \in BOOLEAN}

Programs == AluPrograms \cup AddBytePrograms \cup DrawPrograms \cup BcdPrograms

InitProg ==
    /\ opcode = 0
    /\ \E instrs \in Programs : InitLoaded(instrs)

NextProg == runProgram

SpecProg == InitProg /\ [][NextProg]_vars

----------------------------------------------------------------------------
(* Texts: prefixes and substrings.                                         *)

StartsWith(t, p) ==
    /\ Len(t) >= Len(p)
    /\ \A k \in 1..Len(p) : t[k] = p[k]

Contains(t, p) ==
    \E off \in 0..(Len(t) - Len(p)) : \A k \in 1..Len(p) : t[off + k] = p[k]

ClsText == <<"C","L","S">>
RetText == <<"R","E","T">>
PlaceholderMark == <<"?","?","?">>

\* The instruction encodings of the CHIP-8 instruction table.
KnownEncoding(op) ==
    LET hi == op \div 4096
        n == op % 16
        kk == op % 256
    IN  \/ hi \in {0, 1, 2, 3, 4, 6, 7, 10, 11, 12, 13}
        \/ hi \in {5, 9} /\ n = 0
        \/ hi = 8 /\ n \in {0, 1, 2, 3, 4, 5, 6, 7, 14}
        \/ hi = 14 /\ kk \in {\h9E, \hA1}
        \/ hi = 15 /\ kk \in {\h07, \h0A, \h15, \h18, \h1E, \h29, \h33, \h55, \h65}

\* The first word of t: what precedes its first space.
FirstWord(t) ==
    LET spaces == {k \in 1..Len(t) : t[k] = " "}
    IN  IF spaces = {} THEN t
        ELSE SubSeq(t, 1, (CHOOSE k \in spaces : \A j \in spaces : k <= j) - 1)

\* The opcodes of the families with a second level (8, E, F) that are no instruction.
NoInstruction(op) == op \div 4096 \in {8, 14, 15} /\ ~KnownEncoding(op)

\* t renders the address nnn in hexadecimal after the mnemonic m.
AddressInHex(t, m, nnn) ==
    \E pre \in {<<>>, <<"0","x">>}, post \in {<<>>, <<" ">>} :
        t = m \o pre \o UpperHex(nnn) \o post

----------------------------------------------------------------------------
(* Claims about the machine, checked under Spec.                           *)

\* The transitions of the exports, told apart by what they count.
IsCycle == cycles' = cycles + 1
IsLoad == loads' = loads + 1

IsCallOp(op) == op \div 4096 = 2
IsRetOp(op) == op = \h00EE
IsKeyWaitOp(op) == op \div 4096 = 15 /\ op % 256 = \h0A

LastAddress == MemSize - 2    \* 0xFFE, the last address an instruction fits at

\* pc and the return addresses on the stack are even and at most 0xFFE.
Aligned(c) ==
    /\ c.pc % 2 = 0
    /\ c.pc <= LastAddress
    /\ \A s \in 0..(c.sp - 1) : c.stack[s] % 2 = 0 /\ c.stack[s] <= LastAddress

\* The instruction at pc jumps to an odd address or to one beyond 0xFFE.
JumpsAstray(c) ==
    LET op == Fetch(c)
        hi == op \div 4096
        nnn == op % 4096
    IN  \/ hi \in {1, 2} /\ (nnn % 2 = 1 \/ nnn > LastAddress)
        \/ hi = 11 /\ ((nnn + c.v[0]) % 2 = 1 \/ nnn + c.v[0] > LastAddress)

\* C1 as stated: once initialized, program_counter is even and within 0x000..0xFFE.
C1_PcEvenInRange ==
    inited => (CPU.pc % 2 = 0 /\ CPU.pc \in 0..LastAddress)

\* C1 amended: whatever the host calls, pc and the return addresses on the stack
\* stay even and within 0x000..0xFFE, unless the step executes a JP nnn, CALL nnn
\* or JP V0,nnn whose target is odd or beyond 0xFFE, or executes at 0xFFC or 0xFFE
\* (from where an advance, a skip or a pushed return address passes 0xFFE).
C1_PcStaysAlignedUnlessJumpAstray ==
    [][(/\ Aligned(CPU)
        /\ IsCycle => (CPU.pc + 4 <= LastAddress /\ ~JumpsAstray(CPU)))
       => Aligned(CPU')]_vars

\* C1 witness: an initialized machine has executed CALL 0x300 and stands at an even
\* pc with an even return address on the stack.
C1_Witness ==
    /\ inited
    /\ lastOp = "emulate_cycle"
    /\ CPU.pc = \h300
    /\ CPU.sp = 1
    /\ CPU.stack[0] = \h202
    /\ Aligned(CPU)

\* C2: the stack depth stays within 0..16; a CALL with fewer than 16 entries
\* succeeds and deepens the stack by one; a CALL with 16 entries fails with
\* StackOverflow and a RET with none fails with StackUnderflow, emulate_cycle
\* returns false, and the failing step leaves every field of CPU as it was.
C2_StackBoundsAndAtomicFailure ==
    /\ [](CPU.sp \in 0..StackSize)
    /\ [][IsCycle =>
            LET op == Fetch(CPU)
            IN  /\ (IsCallOp(op) /\ CPU.sp < StackSize) =>
                      /\ result'.kind = "Ok"
                      /\ returned' = "true"
                      /\ CPU'.sp = CPU.sp + 1
                /\ (IsCallOp(op) /\ CPU.sp = StackSize) =>
                      /\ result'.kind = "StackOverflow"
                      /\ returned' = "false"
                /\ (IsRetOp(op) /\ CPU.sp = 0) =>
                      /\ result'.kind = "StackUnderflow"
                      /\ returned' = "false"
                /\ result'.kind \in {"StackOverflow", "StackUnderflow"} => CPU' = CPU
                /\ result'.kind = "StackOverflow" => (IsCallOp(op) /\ CPU.sp = StackSize)
                /\ result'.kind = "StackUnderflow" => (IsRetOp(op) /\ CPU.sp = 0)]_vars

\* C2 witness: sixteen nested CALLs have succeeded and the seventeenth has failed.
C2_Witness ==
    /\ lastOp = "emulate_cycle"
    /\ result.kind = "StackOverflow"
    /\ returned = "false"
    /\ CPU.sp = StackSize
    /\ \A s \in 0..(StackSize - 1) : CPU.stack[s] = \h202

\* C3: CALL nnn at address a with depth d < 16 sets pc = nnn and depth d+1 with a+2
\* on top; RET at depth d+1 sets pc to the address on top and restores depth d; no
\* step changes a stack entry below the top, so the matching RET returns to a+2.
C3_CallRetRoundTrip ==
    [][IsCycle =>
        LET op == Fetch(CPU)
            a == CPU.pc
            d == CPU.sp
        IN  /\ (IsCallOp(op) /\ d < StackSize) =>
                  /\ CPU'.pc = op % 4096
                  /\ CPU'.sp = d + 1
                  /\ CPU'.stack[d] = a + 2
            /\ (IsRetOp(op) /\ d > 0) =>
                  /\ CPU'.pc = CPU.stack[d - 1]
                  /\ CPU'.sp = d - 1
            /\ \A s \in 0..(d - 1) : CPU'.stack[s] = CPU.stack[s]]_vars

\* C3 witness: CALL 0x300 at 0x200 and the RET at 0x300 have both run: pc is back
\* at 0x202 with the stack empty again.
C3_Witness ==
    /\ lastOp = "emulate_cycle"
    /\ result.kind = "Ok"
    /\ cycles = 2
    /\ rom = CallRetRom
    /\ CPU.pc = \h202
    /\ CPU.sp = 0
    /\ CPU.stack[0] = \h202

\* C4: a step on LD Vx,K with no key pressed succeeds and changes nothing of CPU;
\* with some key pressed it succeeds, sets Vx to the index of a pressed key, leaves
\* the other registers alone and advances pc by 2.
C4_KeyWaitPolls ==
    [][(IsCycle /\ IsKeyWaitOp(Fetch(CPU))) =>
        LET x == (Fetch(CPU) \div 256) % 16
        IN  /\ result'.kind = "Ok"
            /\ returned' = "true"
            /\ IF PressedKeys(CPU) = {}
               THEN CPU' = CPU
               ELSE /\ CPU'.v[x] \in PressedKeys(CPU)
                    /\ \A r \in 0..(NumRegs - 1) : r # x => CPU'.v[r] = CPU.v[r]
                    /\ CPU'.pc = CPU.pc + 2
                    /\ CPU' = [CPU EXCEPT !.v[x] = CPU'.v[x], !.pc = CPU.pc + 2]]_vars

\* C4 witness: LD V5,K has been polled at least once without a key and has then
\* taken key F.
C4_Witness ==
    /\ lastOp = "emulate_cycle"
    /\ cycles >= 2
    /\ CPU.v[5] = 15
    /\ CPU.keys[15]
    /\ CPU.pc = \h202
    /\ CPU.sp = 0

\* C5: load_game_js succeeds for every length up to 4096 - 0x200, copying the bytes
\* verbatim to memory[0x200..] and changing nothing else; for a greater length it
\* fails with ProgramTooLarge, the failure is returned to the caller, and CPU is
\* left as it was.
C5_LoadCopiesOrReportsTooLarge ==
    [][IsLoad =>
        IF rom'.len <= MemSize - ProgStart
        THEN /\ result'.kind = "Ok"
             /\ \A idx \in 0..(rom'.len - 1) : Mem(CPU', ProgStart + idx) = At(rom', idx)
             /\ \A a \in (DOMAIN CPU.memory) \cup (DOMAIN CPU'.memory) :
                    a \notin ProgStart..(ProgStart + rom'.len - 1) => Mem(CPU', a) = Mem(CPU, a)
             /\ [CPU' EXCEPT !.memory = CPU.memory] = CPU
        ELSE /\ result'.kind = "ProgramTooLarge"
             /\ returned' # "void"
             /\ CPU' = CPU]_vars

\* C6: a load_game_js that follows init leaves pc at 0x200, and no load_game_js
\* moves pc.
C6_PcAfterInitAndLoad ==
    [][IsLoad =>
        /\ CPU'.pc = CPU.pc
        /\ lastOp = "init" => CPU'.pc = ProgStart]_vars

\* C6 witness: steps ran, then init, then a program was loaded: pc is 0x200.
C6_Witness ==
    /\ lastOp = "load_game_js"
    /\ result.kind = "Ok"
    /\ cycles > 0
    /\ inited
    /\ Mem(CPU, 0) = \hF0
    /\ rom.len > 0
    /\ CPU.pc = ProgStart

\* The keys whose state a step changes.
KeysChanged == {k \in 0..(NumKeys - 1) : CPU'.keys[k] # CPU.keys[k]}

\* A key call for key k that stores b and touches nothing else.
KeyStep(k, b) ==
    /\ CPU' = [CPU EXCEPT !.keys[k] = b]
    /\ UNCHANGED hostVars

\* What C17 says of the single steps: a key_down or key_up for k stores true or
\* false in keys[k] and changes nothing else; emulate_cycle and load_game_js change
\* no key.
KeyStepsFrame ==
    /\ (IsCycle \/ IsLoad) => (CPU'.keys = CPU.keys /\ lastKeyDown' = lastKeyDown)
    /\ lastKeyDown' # lastKeyDown =>
          \E k \in 0..(NumKeys - 1) :
              /\ lastKeyDown' = [lastKeyDown EXCEPT ![k] = ~lastKeyDown[k]]
              /\ KeyStep(k, lastKeyDown'[k])

\* C17 as stated: key_down(k) sets keys[k] and key_up(k) clears it, each leaving
\* everything else alone; no engine step changes a key; so, whatever the host has
\* called, keys[k] is true iff the most recent key event for k was key_down.
C17_KeysFollowKeyEvents ==
    /\ [](\A k \in 0..(NumKeys - 1) : CPU.keys[k] <=> lastKeyDown[k])
    /\ [][KeyStepsFrame]_vars

\* C17 amended: the single steps are as stated, and init is the one other call that
\* changes keys: it clears them all.  So a pressed key's most recent event was
\* key_down, and a key whose most recent event was key_down is pressed until an
\* init clears it.
C17_KeysFollowKeyEventsUntilInit ==
    /\ [](\A k \in 0..(NumKeys - 1) : CPU.keys[k] => lastKeyDown[k])
    /\ [][/\ KeyStepsFrame
          /\ (KeysChanged # {} /\ lastKeyDown' = lastKeyDown) =>
                \/ lastOp' = "init" /\ \A k \in 0..(NumKeys - 1) : ~CPU'.keys[k]
                \/ \E k \in 0..(NumKeys - 1) : lastKeyDown[k] /\ KeyStep(k, TRUE)]_vars

\* C17 witness: with key 1 held down, SKP V1 has skipped, LD V5,K has taken key 1
\* and the program has gone round to SKP V1 again; key 1 is still down and key F,
\* never touched, is still up.
C17_Witness ==
    /\ lastOp = "emulate_cycle"
    /\ rom = RomBytes(KeyProgram(1))
    /\ cycles >= 4
    /\ CPU.pc = \h202
    /\ CPU.v[1] = 1
    /\ CPU.v[5] = 1
    /\ CPU.keys[1] /\ lastKeyDown[1]
    /\ ~CPU.keys[15] /\ ~lastKeyDown[15]

\* The return value and the report of one emulate_cycle call: false and the error's
\* message on the console exactly when the step failed, true and nothing reported
\* exactly when it succeeded.
CycleSurfacesFailure ==
    /\ returned' = "false" <=> result'.kind # "Ok"
    /\ returned' = "true" <=> result'.kind = "Ok"
    /\ console' = (IF result'.kind = "Ok" THEN console ELSE Append(console, result'.kind))

\* C18 as stated: emulate_cycle returns false, after reporting, exactly when the step
\* failed and true exactly when it succeeded; and once a step has failed (the console
\* holds its report) no later call executes an instruction: the machine stays as it is.
C18_FailureSurfacedAndHalts ==
    [][IsCycle =>
        /\ CycleSurfacesFailure
        /\ console # <<>> => CPU' = CPU]_vars

\* C18 amended: the return value and the report are as stated; a call that follows a
\* failed call, with no init and no load_game_js between them, fails the same way and
\* leaves the machine as it is.  (After an init or a load the calls execute again.)
C18_FailureSurfacedAndRepeats ==
    [][IsCycle =>
        /\ CycleSurfacesFailure
        /\ (lastOp = "emulate_cycle" /\ returned = "false") =>
              /\ CPU' = CPU
              /\ result' = result
              /\ returned' = "false"]_vars

\* C18 witness: RET on an empty stack has failed twice in a row, each time reported.
C18_Witness ==
    /\ lastOp = "emulate_cycle"
    /\ returned = "false"
    /\ result.kind = "StackUnderflow"
    /\ console = <<"StackUnderflow", "StackUnderflow">>
    /\ CPU.pc = ProgStart
    /\ cycles = 2

\* C20: whatever pc the steps have produced, update_ui reads CPU.memory at indices
\* 0..4095 only, and pc + 50 fits in 16 bits.
C20_UiReadsInsideMemory ==
    /\ uiFaults = {}
    /\ CPU.pc + UiWindow <= OpcodeMax

----------------------------------------------------------------------------
(* Claims about decoding, checked under SpecDecode.                        *)

\* C11: for every opcode, disassemble returns the placeholder exactly when the step
\* fails with UnknownOpcode, the empty text exactly when the step takes the opcode
\* for the ignored SYS family, and otherwise a text whose mnemonic is that of the
\* family the step executes.
C11_SameClassification ==
    (disDone /\ cycles = 1) =>
        /\ StartsWith(text, PlaceholderMark) <=> result.kind = "UnknownOpcode"
        /\ text = <<>> <=> Family(opcode) = SysFamily
        /\ (result.kind # "UnknownOpcode" /\ Family(opcode) # SysFamily) =>
              FirstWord(text) = Family(opcode)

----------------------------------------------------------------------------
(* Claims about the disassembler, checked under SpecDis.                   *)

\* C7: disassemble is total and pure: for every 16-bit opcode the call returns a
\* text (a finite sequence of printable characters, never a panic) and leaves the
\* machine state as it was.
C7_DisassembleTotalPure ==
    disDone =>
        /\ text # Panicked
        /\ \A k \in 1..Len(text) : text[k] \in Chars
        /\ CPU = StaticCpu

\* C7 witness: an opcode of no instruction has been disassembled to its placeholder.
C7_Witness ==
    /\ disDone
    /\ opcode = \hE000
    /\ text = <<"?","?","?"," ","E","0","0","0">>

\* C8: within 0x0000..0x0FFF only 0x00E0 yields "CLS", only 0x00EE yields "RET",
\* and every other opcode yields the empty text.
C8_OnlyExactClsRet ==
    (disDone /\ opcode \in \h0000..\h0FFF) =>
        text = (IF opcode = \h00E0 THEN ClsText
                ELSE IF opcode = \h00EE THEN RetText
                ELSE <<>>)

\* C9: disassemble returns a placeholder containing the opcode in hexadecimal for
\* exactly the opcodes that match no known instruction encoding.
C9_PlaceholderIffUnknown ==
    disDone =>
        /\ KnownEncoding(opcode) <=> ~StartsWith(text, PlaceholderMark)
        /\ ~KnownEncoding(opcode) => Contains(text, UpperHex(opcode))

\* C10: registers are rendered as V<index>, the 12-bit address operand of JP nnn,
\* CALL nnn, LD I,nnn and JP V0,nnn in hexadecimal, byte operands in decimal; JP nnn
\* is "JP 0x" followed by nnn in upper-case hexadecimal.
C10_OperandRendering ==
    disDone =>
        LET hi == opcode \div 4096
            nnn == opcode % 4096
            x == (opcode \div 256) % 16
            kk == opcode % 256
        IN  /\ hi = 1 => text = <<"J","P"," ","0","x">> \o UpperHex(nnn)
            /\ hi = 2 => AddressInHex(text, <<"C","A","L","L"," ">>, nnn)
            /\ hi = 10 => AddressInHex(text, <<"L","D"," ","I"," ">>, nnn)
            /\ hi = 11 =>
                  \/ AddressInHex(text, <<"J","P"," ","V","0",","," ">>, nnn)
                  \/ AddressInHex(text, <<"J","P"," ","V","0"," ">>, nnn)
            /\ hi \in {3, 4, 6, 7, 12} =>
                  /\ Contains(text, <<"V">> \o Display(x))
                  /\ Contains(text, <<" ">> \o Display(kk))

\* C19: for every opcode of an instruction family of the table, the text begins with
\* the mnemonic of that family; 8xyE is rendered SHL and 8xy6 SHR.
C19_MnemonicOfFamily ==
    (disDone /\ KnownEncoding(opcode) /\ Family(opcode) # SysFamily) =>
        FirstWord(text) = Family(opcode)

----------------------------------------------------------------------------
(* Claims about single instructions, checked under SpecProg.               *)

\* The fields of the instruction the next cycle executes.
OpHi == Fetch(CPU) \div 4096
OpX == (Fetch(CPU) \div 256) % 16
OpY == (Fetch(CPU) \div 16) % 16
OpN == Fetch(CPU) % 16
OpKk == Fetch(CPU) % 256

\* The flag of the 8xy? instruction n on operands vx and vy.
FlagOf(n, vx, vy) ==
    CASE n = 4 -> IF vx + vy > 255 THEN 1 ELSE 0
      [] n = 5 -> IF vx >= vy THEN 1 ELSE 0
      [] n = 6 -> vx % 2
      [] n = 7 -> IF vy >= vx THEN 1 ELSE 0
      [] n = 14 -> vx \div 128

\* The 8-bit result of the 8xy? instruction n on operands vx and vy.
ValueOf(n, vx, vy) ==
    CASE n = 4 -> (vx + vy) % 256
      [] n = 5 -> (vx - vy + 256) % 256
      [] n = 6 -> vx \div 2
      [] n = 7 -> (vy - vx + 256) % 256
      [] n = 14 -> (vx * 2) % 256

SecondDraw ==
    /\ IsCycle
    /\ lastOp = "emulate_cycle"
    /\ OpHi = 13
    /\ OpX # 15
    /\ OpY # 15
    /\ CPU.pc = ProgStart + 2 * cycles
    /\ Mem(CPU, CPU.pc - 2) * 256 + Mem(CPU, CPU.pc - 1) = Fetch(CPU)

\* Some row of the sprite the next DRW draws has a set bit.
SpriteLit == \E row \in 0..(OpN - 1) : Mem(CPU, CPU.i + row) # 0

RomByte(k) == IF k \in DOMAIN rom.nz THEN rom.nz[k] ELSE 0

\* The loaded program is one of BcdPrograms and has run to its end.
BcdProgramDone ==
    /\ rom.len >= 12
    /\ RomByte(6) \div 16 = 15
    /\ RomByte(7) = \h33
    /\ cycles = rom.len \div 2

\* The cycle about to run is the LD Vx,[I] that directly follows LD [I],Vx.
ReloadAfterStore ==
    /\ IsCycle
    /\ lastOp = "emulate_cycle"
    /\ Fetch(CPU) = LdVxMem(OpX)
    /\ CPU.pc = ProgStart + 2 * cycles
    /\ Mem(CPU, CPU.pc - 2) * 256 + Mem(CPU, CPU.pc - 1) = LdMemVx(OpX)

====
